---- MODULE Spec2Model ----
(***************************************************************************)
(* Model of the prediction-blending and forecast-fallback engine of the   *)
(* crop production prediction system (src/src/models/ensemble_model.py    *)
(* and the forecasters it drives).                                        *)
(*                                                                         *)
(* Numbers.  Yields are real numbers in the program.  They are modelled   *)
(* exactly as integers in thousandths of a unit, so that the mean of two  *)
(* values, 1.96 * std and 0.196 * value are all integers for estimator    *)
(* values that are whole units.  Weights are modelled in tenths.          *)
(***************************************************************************)
EXTENDS Integers, Sequences, FiniteSets, TLC

VARIABLES
    rf_model,    \* self.rf_model: None, or the loaded Random Forest predictor
    xgb_model,   \* self.xgb_model: None, or the loaded XGBoost predictor
    encoder,     \* self.encoder: None, or the loaded FeatureEncoder
    weights,     \* self.weights
    is_loaded,   \* self.is_loaded
    df,          \* the historical dataset handed to the predictor
    result,      \* the value returned by the last call (NoCall before any)
    api          \* the API module's global ensemble_predictor and the
                 \* position of its background load thread

vars == <<rf_model, xgb_model, encoder, weights, is_loaded, df, result, api>>

predictorVars == <<rf_model, xgb_model, encoder, weights, is_loaded>>

(***************************************************************************)
(* Helpers                                                                 *)
(***************************************************************************)
\* Python None (a record, so that it compares with loaded objects)
None == [none |-> TRUE]

Max(a, b) == IF a >= b THEN a ELSE b

RECURSIVE SumSeq(_)
SumSeq(s) == IF s = <<>> THEN 0 ELSE Head(s) + SumSeq(Tail(s))

\* Integer square root, by bisection on lo..hi (lo*lo <= x < (hi+1)*(hi+1)).
RECURSIVE SqrtBetween(_, _, _)
SqrtBetween(x, lo, hi) ==
    IF lo >= hi THEN lo
    ELSE LET mid == (lo + hi + 1) \div 2
         IN  IF mid * mid <= x THEN SqrtBetween(x, mid, hi)
                               ELSE SqrtBetween(x, lo, mid - 1)

ISqrt(x) == SqrtBetween(x, 0, IF x < 46340 THEN x ELSE 46340)

(***************************************************************************)
(* Bounds of the model                                                     *)
(***************************************************************************)
\* The largest value (whole units) an estimator returns in the model.
MaxYield == 4

Milli(u) == u * 1000

\* Values an estimator's predict() may return (thousandths): negative, zero,
\* positive, so that two contributors can agree or differ.
EstimatorValues == { Milli(-2), Milli(0), Milli(1), Milli(MaxYield) }

RequestCrops == {"Rice", "Wheat", "Quinoa"}
RequestStates == {"Punjab", "Kerala"}

(***************************************************************************)
(* EnsembleYieldPredictor.__init__                                         *)
(***************************************************************************)
\* self.weights (tenths)
InitialWeights ==
    [random_forest |-> 5, xgboost |-> 5, arima |-> 2, prophet |-> 2]

NoCall == [op |-> "none"]

\* The API module as imported (lines 44-47): no global predictor, the load
\* thread not started.
NotStarted == [ensemble_predictor |-> "None", pc |-> "not_started"]

InitPredictor ==
    /\ rf_model = None
    /\ xgb_model = None
    /\ encoder = None
    /\ weights = InitialWeights
    /\ is_loaded = FALSE

(***************************************************************************)
(* EnsembleYieldPredictor.load_models                                      *)
(*                                                                         *)
(* Each of the three files is missing, holds an object saved after        *)
(* training (fitting), holds an object saved before it, or cannot be      *)
(* unpickled.  The three loads run in one try block: the first load that  *)
(* raises skips the rest and leaves is_loaded False.                       *)
(***************************************************************************)
FileStates == {"missing", "trained", "untrained", "corrupt"}

\* RandomForestYieldPredictor.load / XGBoostYieldPredictor.load: the saved
\* is_trained flag and feature_names (None until train() stores the columns).
LoadedModel(file) ==
    [is_trained |-> (file = "trained"),
     feature_names |-> IF file = "trained" THEN "columns" ELSE "None"]

\* FeatureEncoder.load
LoadedEncoder(file) == [is_fitted |-> (file = "trained")]

LoadModels ==
    /\ rf_model = None /\ xgb_model = None /\ encoder = None /\ ~is_loaded
    /\ \E encFile \in FileStates, rfFile \in FileStates, xgbFile \in FileStates :
         LET encRaises == encFile = "corrupt"
             rfRaises  == ~encRaises /\ rfFile = "corrupt"
             xgbRaises == ~encRaises /\ ~rfRaises /\ xgbFile = "corrupt"
         IN  /\ encoder' = IF encFile \in {"missing", "corrupt"} THEN None
                           ELSE LoadedEncoder(encFile)
             /\ rf_model' = IF encRaises \/ rfFile \in {"missing", "corrupt"}
                            THEN None ELSE LoadedModel(rfFile)
             /\ xgb_model' = IF encRaises \/ rfRaises
                                \/ xgbFile \in {"missing", "corrupt"}
                             THEN None ELSE LoadedModel(xgbFile)
             /\ is_loaded' = ~(encRaises \/ rfRaises \/ xgbRaises)
    /\ UNCHANGED <<weights, df, result, api>>

(***************************************************************************)
(* EnsembleYieldPredictor._prepare_input                                   *)
(*                                                                         *)
(* expected_features is rf_model.feature_names whenever an rf_model is     *)
(* loaded.  An rf_model saved before training has feature_names None, and  *)
(* "for feat in expected_features" then raises TypeError, for whichever    *)
(* estimator the input is being prepared.  The per-column encoding runs    *)
(* inside its own try/except and never raises.                             *)
(***************************************************************************)
PrepareInputRaises ==
    /\ rf_model # None
    /\ rf_model.feature_names = "None"

(***************************************************************************)
(* EnsembleYieldPredictor.predict_yield                                    *)
(***************************************************************************)
\* What the wrapped library model does when predict() is called on the
\* prepared input: raise, or return a value.
EstimatorOutcomes ==
    {[raises |-> TRUE, value |-> 0]}
        \cup {[raises |-> FALSE, value |-> v] : v \in EstimatorValues}

\* The mutant: one try block around the estimator, with no except clause
\* that swallows the error of predict().
TryEstimatorNoCatch(model, out) ==
    IF model = None \/ ~model.is_trained
    THEN [status |-> "skipped", value |-> 0, escaped |-> FALSE]
    ELSE IF PrepareInputRaises
    THEN [status |-> "prepare_raised", value |-> 0, escaped |-> FALSE]
    ELSE IF out.raises
    THEN [status |-> "predict_raised", value |-> 0, escaped |-> TRUE]
    ELSE [status |-> "value", value |-> out.value, escaped |-> FALSE]

\* One estimator block: "if model and model.is_trained: try: prepare,
\* predict, append; except Exception: print".  status tells how far the
\* block got; escaped tells whether an exception left the block.
TryEstimator(model, out) ==
    IF model = None \/ ~model.is_trained
    THEN [status |-> "skipped", value |-> 0, escaped |-> FALSE]
    ELSE IF PrepareInputRaises
    THEN [status |-> "prepare_raised", value |-> 0, escaped |-> FALSE]
    ELSE IF out.raises
    THEN [status |-> "predict_raised", value |-> 0, escaped |-> FALSE]
    ELSE [status |-> "value", value |-> out.value, escaped |-> FALSE]

\* The mutant: a table lookup with no generic default.
BaseYieldNoDefault(crop) ==
    Milli(CASE crop = "Rice" -> 40 [] crop = "Wheat" -> 35
            [] crop = "Cotton" -> 12 [] crop = "Soybean" -> 10
            [] crop = "Sugarcane" -> 70 [] crop = "Maize" -> 25
            [] crop = "Groundnut" -> 15 [] crop = "Pulses" -> 8
            [] crop = "Oilseeds" -> 12 [] crop = "Jute" -> 20
            [] OTHER -> 0)

\* The heuristic table: base_yield = {...}.get(crop, 20)
BaseYield(crop) ==
    Milli(CASE crop = "Rice" -> 40 [] crop = "Wheat" -> 35
            [] crop = "Cotton" -> 12 [] crop = "Soybean" -> 10
            [] crop = "Sugarcane" -> 70 [] crop = "Maize" -> 25
            [] crop = "Groundnut" -> 15 [] crop = "Pulses" -> 8
            [] crop = "Oilseeds" -> 12 [] crop = "Jute" -> 20
            [] OTHER -> 20)

\* weights = [self.weights.get(name, 1.0/len(predictions)) for name in ...]
\* in tenths.
WeightOf(name, n) ==
    IF name \in DOMAIN weights THEN weights[name] ELSE 10 \div n

\* The mutant: the nominal weights are not renormalized over the
\* contributors (the divisor is the nominal total of the two estimators).
NpAverageNominal(predictions, ws) ==
    SumSeq([i \in 1..Len(predictions) |-> predictions[i] * ws[i]]) \div 10

\* weights / sum(weights), then np.average(predictions, weights=weights)
NpAverage(predictions, ws) ==
    SumSeq([i \in 1..Len(predictions) |-> predictions[i] * ws[i]])
        \div SumSeq(ws)

\* Sum of squared deviations from the arithmetic mean, times n*n (exact).
SumSqDevN2(xs) ==
    LET n == Len(xs)
        s == SumSeq(xs)
    IN  SumSeq([i \in 1..n |-> (n * xs[i] - s) * (n * xs[i] - s)])

\* np.std(predictions): ddof defaults to 0, the divisor is n.
NpStd(xs) ==
    LET n == Len(xs)
    IN  ISqrt(SumSqDevN2(xs) \div (n * n * n))

\* The blend of the contributing values: lines 117-143.
Blend(crop, names0, preds0) ==
    LET fallback    == Len(preds0) = 0
        predictions == IF fallback THEN <<BaseYield(crop)>> ELSE preds0
        model_names == IF fallback THEN <<"heuristic">> ELSE names0
        n           == Len(predictions)
        ws          == [i \in 1..n |-> WeightOf(model_names[i], n)]
        ensemble_pred == NpAverage(predictions, ws)
        std_pred    == IF n > 1 THEN NpStd(predictions)
                                ELSE ensemble_pred \div 10
        half        == (196 * std_pred) \div 100
    IN  [predicted_yield |-> Max(0, ensemble_pred),
         lower |-> Max(0, ensemble_pred - half),
         upper |-> ensemble_pred + half,
         ensemble_pred |-> ensemble_pred,
         model_names |-> model_names,
         predictions |-> predictions]

\* predict_yield: the Random Forest block, the XGBoost block, the blend.
\* raised tells whether an exception reaches the caller.
predict_yield(crop, rfOut, xgbOut) ==
    LET rf  == TryEstimator(rf_model, rfOut)
        xgb == TryEstimator(xgb_model, xgbOut)
        xgbRan == ~rf.escaped
        names0 == (IF rf.status = "value" THEN <<"random_forest">> ELSE <<>>)
                  \o (IF xgbRan /\ xgb.status = "value"
                      THEN <<"xgboost">> ELSE <<>>)
        preds0 == (IF rf.status = "value" THEN <<rf.value>> ELSE <<>>)
                  \o (IF xgbRan /\ xgb.status = "value"
                      THEN <<xgb.value>> ELSE <<>>)
        raised == rf.escaped \/ (xgbRan /\ xgb.escaped)
        b == Blend(crop, names0, preds0)
    IN  [op |-> "predict_yield",
         crop |-> crop,
         rf |-> rf.status,
         xgb |-> IF xgbRan THEN xgb.status ELSE "not_reached",
         raised |-> raised,
         predicted_yield |-> IF raised THEN 0 ELSE b.predicted_yield,
         lower |-> IF raised THEN 0 ELSE b.lower,
         upper |-> IF raised THEN 0 ELSE b.upper,
         ensemble_pred |-> IF raised THEN 0 ELSE b.ensemble_pred,
         model_names |-> IF raised THEN <<>> ELSE b.model_names,
         predictions |-> IF raised THEN <<>> ELSE b.predictions]

\* The mutant: the weights renormalized over the two yield models are stored
\* back into self.weights.
PredictYieldStoresWeights ==
    /\ result = NoCall
    /\ \E crop \in RequestCrops, rfOut \in EstimatorOutcomes,
          xgbOut \in EstimatorOutcomes :
         result' = predict_yield(crop, rfOut, xgbOut)
    /\ weights' = [weights EXCEPT !.arima = 0, !.prophet = 0]
    /\ UNCHANGED <<rf_model, xgb_model, encoder, is_loaded, df, api>>

PredictYield ==
    /\ result = NoCall
    /\ \E crop \in RequestCrops, rfOut \in EstimatorOutcomes,
          xgbOut \in EstimatorOutcomes :
         result' = predict_yield(crop, rfOut, xgbOut)
    /\ UNCHANGED <<predictorVars, df, api>>

\* The caller takes the returned value; the predictor is ready for the next
\* call (the calls are synchronous, one at a time).
Return ==
    /\ result # NoCall
    /\ result' = NoCall
    /\ UNCHANGED <<predictorVars, df, api>>

(***************************************************************************)
(* The point-estimate path: a predictor is constructed, its models are     *)
(* loaded once, and predict_yield is called any number of times.           *)
(***************************************************************************)
InitYield ==
    /\ InitPredictor
    /\ api = NotStarted
    /\ df = {}
    /\ result = NoCall

NextYield == LoadModels \/ PredictYield \/ Return

SpecYield == InitYield /\ [][NextYield]_vars

(***************************************************************************)
(* Claims about predict_yield (checked under SpecYield)                    *)
(***************************************************************************)
YieldReturned == result.op = "predict_yield" /\ ~result.raised

Contributed(name) ==
    \E i \in 1..Len(result.model_names) : result.model_names[i] = name

\* C1: every result of predict_yield has lower <= predicted_yield <= upper
\* and predicted_yield >= 0, whatever values the estimators return
\* (negative ones included).
C1_IntervalBracketsValue ==
    YieldReturned =>
        /\ result.lower <= result.predicted_yield
        /\ result.predicted_yield <= result.upper
        /\ result.predicted_yield >= 0

\* C2: when no estimator contributes (not loaded, not trained, or raising),
\* predict_yield does not raise and returns the result tagged "heuristic"
\* whose value is the baseline of the crop: 40 for Rice, 35 for Wheat, the
\* generic default 20 for a crop that is not in the table.
C2_HeuristicFallback ==
    (result.op = "predict_yield" /\ result.rf # "value"
        /\ result.xgb # "value") =>
        /\ ~result.raised
        /\ result.model_names = <<"heuristic">>
        /\ result.predicted_yield =
               (CASE result.crop = "Rice" -> 40000
                  [] result.crop = "Wheat" -> 35000
                  [] OTHER -> 20000)

C2_Witness ==
    /\ result.op = "predict_yield"
    /\ result.crop = "Quinoa"
    /\ result.rf = "predict_raised"
    /\ result.xgb = "predict_raised"
    /\ result.model_names = <<"heuristic">>
    /\ result.predicted_yield = 20000

\* C3: the estimators are invoked independently.  No error of an estimator
\* reaches the caller; when Random Forest raises, the XGBoost block is still
\* run; an estimator contributes (model_used, individual_predictions) exactly
\* when it returned a value, so a failing one is omitted and the other,
\* if it returned a value, is kept.
C3_IndependentEstimators ==
    result.op = "predict_yield" =>
        /\ ~result.raised
        /\ result.rf \in {"prepare_raised", "predict_raised"}
              => result.xgb # "not_reached"
        /\ Contributed("random_forest") <=> result.rf = "value"
        /\ Contributed("xgboost") <=> result.xgb = "value"
        /\ Len(result.predictions) = Len(result.model_names)

C3_Witness ==
    /\ YieldReturned
    /\ result.rf = "predict_raised"
    /\ result.xgb = "value"
    /\ result.model_names = <<"xgboost">>

\* The weighted mean of the contributing values with the nominal weights
\* 0.5 and 0.5 renormalized over the contributors: the value itself for one
\* contributor, half the sum for two.  TRUE when v is that mean.
IsRenormalizedMean(v) ==
    LET p == result.predictions
    IN  IF Len(p) = 1 THEN v = p[1] ELSE 2 * v = p[1] + p[2]

\* C9 as stated: the value returned by predict_yield is the weighted mean of
\* the contributing estimators' values, the weights renormalized over the
\* contributors (one contributor: the value of that model).
C9_ValueIsWeightedMean ==
    (YieldReturned /\ ~Contributed("heuristic")) =>
        IsRenormalizedMean(result.predicted_yield)

\* C9 amended: the value returned by predict_yield is that weighted mean
\* floored at 0.
C9_ValueIsFlooredWeightedMean ==
    (YieldReturned /\ ~Contributed("heuristic")) =>
        \/ IsRenormalizedMean(result.predicted_yield)
              /\ result.predicted_yield >= 0
        \/ result.predicted_yield = 0
              /\ \E m \in -Milli(MaxYield)..0 : IsRenormalizedMean(m)

C9_Witness ==
    /\ YieldReturned
    /\ result.rf = "predict_raised"
    /\ result.model_names = <<"xgboost">>
    /\ result.predictions = <<Milli(MaxYield)>>
    /\ result.predicted_yield = Milli(MaxYield)

\* C10: with two or more contributors the interval is value +- 1.96 sigma,
\* sigma the sample standard deviation (divisor n - 1) of the contributing
\* values, the lower bound floored at 0.  In hundredths of a unit h and
\* deviations d: h = 1.96 sigma  iff  (n-1) (25 h)^2 = 49^2 sum d^2.
\* (Stated for contributing values that are all >= 0, where the floor of the
\* value at 0 plays no part.)
C10_SampleStdInterval ==
    (YieldReturned /\ Len(result.predictions) >= 2
        /\ \A i \in 1..Len(result.predictions) : result.predictions[i] >= 0) =>
        LET n   == Len(result.predictions)
            p   == result.predictions
            h   == (result.upper - result.predicted_yield) \div 10
            ssd == SumSqDevN2([i \in 1..n |-> p[i] \div 10]) \div (n * n)
        IN  /\ h >= 0
            /\ (n - 1) * (25 * h) * (25 * h) = 49 * 49 * ssd
            /\ result.lower = Max(0, 2 * result.predicted_yield - result.upper)

\* C11: with exactly one contributor, or the heuristic fallback, the
\* interval is value +- 1.96 * (0.1 * value) around the returned
\* predicted_yield: lower = 0.804 value, upper = 1.196 value.
C11_SynthesizedInterval ==
    (YieldReturned /\ Len(result.predictions) = 1) =>
        /\ 1000 * result.lower = 804 * result.predicted_yield
        /\ 1000 * result.upper = 1196 * result.predicted_yield

(***************************************************************************)
(* The historical dataset                                                  *)
(*                                                                         *)
(* A dataset is a set of rows (Crop, State, Year, Production).  The mean   *)
(* of a column is a rational number, kept exactly as num/den; den = 0 is   *)
(* the NaN that pandas gives for the mean of no rows.                      *)
(***************************************************************************)
\* The first year of the historical records of the model.
FirstYear == 2013

\* A dataset has at most MaxRows rows.
MaxRows == 3

\* Requests ask for years up to Horizon years after the last historical year.
Horizon == 2

HistoricalYears == FirstYear..(FirstYear + 1)

RequestYears == (FirstYear + 1)..(FirstYear + 1 + Horizon)

RowUniverse ==
    [Crop : {"Rice", "Wheat"}, State : {"Punjab"},
     Year : HistoricalYears, Production : {100, 300}]

Datasets == { d \in SUBSET RowUniverse : Cardinality(d) <= MaxRows }

TrendCrops == {"Rice", "Wheat"}

\* Values a trend model may forecast.
ForecastValues == {100, 200}

RECURSIVE SumProduction(_)
SumProduction(rows) ==
    IF rows = {} THEN 0
    ELSE LET r == CHOOSE x \in rows : TRUE
         IN  r.Production + SumProduction(rows \ {r})

\* rows['Production'].mean()
MeanProduction(rows) ==
    [num |-> SumProduction(rows), den |-> Cardinality(rows)]

\* df[(df['Crop'] == crop) & (df['State'] == state)]
Filtered(data, crop, state) ==
    { r \in data : r.Crop = crop /\ r.State = state }

RECURSIVE SortedSeq(_)
SortedSeq(S) ==
    IF S = {} THEN <<>>
    ELSE LET m == CHOOSE x \in S : \A y \in S : x <= y
         IN  <<m>> \o SortedSeq(S \ {m})

\* prepare_time_series: filtered.groupby('Year')['Production'].mean()
\* .sort_index(); raises ValueError when the pair has no rows.
prepare_time_series(data, crop, state) ==
    LET filtered == Filtered(data, crop, state)
        years    == SortedSeq({ r.Year : r \in filtered })
    IN  [raises |-> filtered = {},
         series |-> [i \in 1..Len(years) |->
                        [year |-> years[i],
                         value |-> MeanProduction(
                             { r \in filtered : r.Year = years[i] })]]]

(***************************************************************************)
(* ProphetForecaster                                                       *)
(***************************************************************************)
\* prepare_prophet_data: ds is January 1st of the year of each point.
prepare_prophet_data(series) ==
    [i \in 1..Len(series) |->
        [ds |-> [year |-> series[i].year, month |-> 1, day |-> 1],
         y  |-> series[i].value]]

\* The mutant: freq='M', the future rows are month ends of one year.
ProphetFutureDatesMonthly(history, periods) ==
    LET last == history[Len(history)].ds
    IN  [i \in 1..periods |->
            [year |-> last.year, month |-> i, day |-> 28]]

\* ProphetForecaster.forecast(periods, freq='Y'): make_future_dataframe
\* extends the history by `periods` year ends after the last history date.
\* The last history date is January 1st of the last year, so the first
\* year end after it is December 31st of that same year.
ProphetFutureDates(history, periods) ==
    LET last == history[Len(history)].ds
    IN  [i \in 1..periods |->
            [year |-> last.year + i - 1, month |-> 12, day |-> 31]]

\* ProphetForecaster.predict once trained: the points of the future rows
\* whose year lies in start_year..end_year; yhat[i] is what the fitted
\* model forecasts for the i-th future row.
ProphetPredict(series, start_year, end_year, yhat) ==
    LET last_year == series[Len(series)].year
        periods   == end_year - last_year
    IN  IF periods <= 0 THEN <<>>
        ELSE LET future == ProphetFutureDates(prepare_prophet_data(series),
                                              periods)
                 rows == [i \in 1..periods |->
                            [year |-> future[i].year,
                             predicted_production |->
                                 [num |-> yhat[i], den |-> 1]]]
             IN  SelectSeq(rows, LAMBDA r :
                     start_year <= r.year /\ r.year <= end_year)

(***************************************************************************)
(* ARIMAForecaster                                                         *)
(***************************************************************************)
\* ARIMAForecaster.predict once trained: one point for each year after the
\* last historical year up to end_year; mean[i] is the i-th forecast step.
ArimaPredict(series, start_year, end_year, mean) ==
    LET last_year == series[Len(series)].year
        steps     == end_year - last_year
    IN  IF steps <= 0 THEN <<>>
        ELSE [i \in 1..steps |->
                [year |-> last_year + i,
                 predicted_production |-> [num |-> mean[i], den |-> 1]]]

\* What the fitting library does in one attempt: train() raises, forecast()
\* raises, or both succeed.
LibraryOutcomes == {"train_raises", "forecast_raises", "ok"}

\* Steps a model is asked to forecast for the request.
StepsAsked(series, end_year) ==
    IF Len(series) = 0 THEN 0
    ELSE Max(0, end_year - series[Len(series)].year)

\* The forecast values the library may produce for the steps asked.
ForecastSeqs(steps) == [1..steps -> ForecastValues]

(***************************************************************************)
(* EnsembleYieldPredictor.predict_production_trends                        *)
(***************************************************************************)
\* a > b for exact rationals with den > 0
Greater(a, b) == a.num * b.den > b.num * a.den

\* The trend reported with a forecast of Prophet or ARIMA (lines 239, 253).
ModelTrend(predictions) ==
    IF Greater(predictions[Len(predictions)].predicted_production,
               predictions[1].predicted_production)
    THEN "increasing" ELSE "decreasing"

\* The mutant: no except clause around the attempt of a trend model.
TrendAttemptNoCatch(name, series, start_year, end_year, out, vals) ==
    IF out = "train_raises"
           \/ (out = "forecast_raises" /\ StepsAsked(series, end_year) > 0)
    THEN [status |-> "raised", forecast |-> <<>>, escaped |-> TRUE]
    ELSE [status |-> "returned",
          forecast |-> IF name = "Prophet"
                       THEN ProphetPredict(series, start_year, end_year, vals)
                       ELSE ArimaPredict(series, start_year, end_year, vals),
          escaped |-> FALSE]

\* One link of the chain (lines 231-243 for Prophet, 246-257 for ARIMA):
\* "try: train; predictions = predict(...) ... except: pass".  train() may
\* raise; forecast() is reached, and may raise, only when there are steps to
\* ask; an error never leaves the block.
TrendAttempt(name, series, start_year, end_year, out, vals) ==
    IF out = "train_raises"
           \/ (out = "forecast_raises" /\ StepsAsked(series, end_year) > 0)
    THEN [status |-> "raised", forecast |-> <<>>, escaped |-> FALSE]
    ELSE [status |-> "returned",
          forecast |-> IF name = "Prophet"
                       THEN ProphetPredict(series, start_year, end_year, vals)
                       ELSE ArimaPredict(series, start_year, end_year, vals),
          escaped |-> FALSE]

\* The mutant: ARIMA is tried before Prophet.
ChainOrderArimaFirst == <<"ARIMA", "Prophet">>

\* The order of the try blocks: Prophet (line 230), then ARIMA (line 245).
ChainOrder == <<"Prophet", "ARIMA">>

\* The mutant: range(start_year, end_year) leaves the last year out.
LinearYearsExclusive(start_year, end_year) ==
    [i \in 1..Max(0, end_year - start_year) |-> start_year + i - 1]

\* range(start_year, end_year + 1)
LinearYears(start_year, end_year) ==
    [i \in 1..Max(0, end_year - start_year + 1) |-> start_year + i - 1]

\* The mutant: no pd.isna test, the mean of the pair is used as it is.
LinearExtrapolationNoFallback(data, crop, state, start_year, end_year) ==
    LET avg_production == MeanProduction(Filtered(data, crop, state))
        years == LinearYears(start_year, end_year)
    IN  [i \in 1..Len(years) |->
            [year |-> years[i], predicted_production |-> avg_production]]

\* Lines 262-273: the flat forecast at the mean production of the pair, or
\* of the whole dataset when the pair has no rows (pd.isna).
LinearExtrapolation(data, crop, state, start_year, end_year) ==
    LET pair == MeanProduction(Filtered(data, crop, state))
        avg_production == IF pair.den = 0 THEN MeanProduction(data) ELSE pair
        years == LinearYears(start_year, end_year)
    IN  [i \in 1..Len(years) |->
            [year |-> years[i], predicted_production |-> avg_production]]

NotTried == [status |-> "not_tried", forecast |-> <<>>, escaped |-> FALSE]

\* How an attempt ended, as the claims speak of it.
AttemptStatus(a) ==
    IF a.status = "returned"
    THEN (IF Len(a.forecast) = 0 THEN "empty" ELSE "produced")
    ELSE a.status

\* predict_production_trends.  outs[name], vals[name]: what the library of
\* the trend model `name` does when it is tried.  raised tells whether an
\* exception reaches the caller.
predict_production_trends(data, crop, state, start_year, end_year, outs, vals) ==
    LET ts     == prepare_time_series(data, crop, state)
        first  == IF ts.raises THEN NotTried
                  ELSE TrendAttempt(ChainOrder[1], ts.series, start_year,
                                    end_year, outs[ChainOrder[1]],
                                    vals[ChainOrder[1]])
        firstReturns == first.status = "returned" /\ Len(first.forecast) > 0
        second == IF ts.raises \/ first.escaped \/ firstReturns THEN NotTried
                  ELSE TrendAttempt(ChainOrder[2], ts.series, start_year,
                                    end_year, outs[ChainOrder[2]],
                                    vals[ChainOrder[2]])
        secondReturns == second.status = "returned" /\ Len(second.forecast) > 0
        prophet == IF ChainOrder[1] = "Prophet" THEN first ELSE second
        arima   == IF ChainOrder[1] = "ARIMA" THEN first ELSE second
        base == [op |-> "predict_production_trends",
                 crop |-> crop, state |-> state,
                 start_year |-> start_year, end_year |-> end_year,
                 has_series |-> ~ts.raises,
                 last_year |-> IF ts.raises THEN 0
                               ELSE ts.series[Len(ts.series)].year,
                 prophet |-> AttemptStatus(prophet),
                 arima |-> AttemptStatus(arima)]
    IN  IF first.escaped \/ second.escaped
        THEN base @@ [raised |-> TRUE, forecast |-> <<>>,
                      trend |-> "", model_used |-> ""]
        ELSE IF firstReturns
        THEN base @@ [raised |-> FALSE, forecast |-> first.forecast,
                      trend |-> ModelTrend(first.forecast),
                      model_used |-> ChainOrder[1]]
        ELSE IF secondReturns
        THEN base @@ [raised |-> FALSE, forecast |-> second.forecast,
                      trend |-> ModelTrend(second.forecast),
                      model_used |-> ChainOrder[2]]
        ELSE base @@ [raised |-> FALSE,
                      forecast |-> LinearExtrapolation(data, crop, state,
                                                       start_year, end_year),
                      trend |-> "stable",
                      model_used |-> "Linear Extrapolation"]

\* A request for a forecast.  The library outcomes are chosen for the links
\* that are reached: ARIMA's only when Prophet returned no point.
PredictProductionTrends ==
    /\ result = NoCall
    /\ \E crop \in TrendCrops, state \in RequestStates,
          start_year \in RequestYears, end_year \in RequestYears :
         LET steps == StepsAsked(prepare_time_series(df, crop, state).series,
                                 end_year)
         IN  \E pOut \in LibraryOutcomes :
             \E yhat \in ForecastSeqs(IF pOut = "ok" THEN steps ELSE 0) :
               LET pReturns ==
                       pOut = "ok" /\ steps > 0
                       /\ Len(ProphetPredict(
                              prepare_time_series(df, crop, state).series,
                              start_year, end_year, yhat)) > 0
               IN  \E aOut \in (IF pReturns THEN {"ok"} ELSE LibraryOutcomes) :
                   \E mean \in ForecastSeqs(IF aOut = "ok" /\ ~pReturns
                                            THEN steps ELSE 0) :
                     result' = predict_production_trends(
                                   df, crop, state, start_year, end_year,
                                   [Prophet |-> pOut, ARIMA |-> aOut],
                                   [Prophet |-> yhat, ARIMA |-> mean])
    /\ UNCHANGED <<predictorVars, df, api>>

(***************************************************************************)
(* The forecast path: a dataset is loaded, and predict_production_trends   *)
(* is called any number of times on it.                                    *)
(***************************************************************************)
InitTrend ==
    /\ InitPredictor
    /\ api = NotStarted
    /\ df \in Datasets
    /\ result = NoCall

NextTrend == PredictProductionTrends \/ Return

SpecTrend == InitTrend /\ [][NextTrend]_vars

(***************************************************************************)
(* Claims about predict_production_trends (checked under SpecTrend)        *)
(***************************************************************************)
TrendCall == result.op = "predict_production_trends"

TrendReturned == TrendCall /\ ~result.raised

FirstValue == result.forecast[1].predicted_production

LastValue == result.forecast[Len(result.forecast)].predicted_production

\* C4: the trend models are tried in a fixed order.  Prophet is tried first
\* whenever there is a series; ARIMA is tried only if Prophet raised or
\* returned zero points; linear extrapolation answers for a series only if
\* ARIMA too raised or returned zero points; model_used names the first link
\* of that order that produced a non-empty forecast.
C4_FallbackOrder ==
    TrendCall =>
        /\ result.has_series => result.prophet # "not_tried"
        /\ result.arima # "not_tried" => result.prophet \in {"raised", "empty"}
        /\ (result.has_series /\ result.model_used = "Linear Extrapolation")
              => result.arima \in {"raised", "empty"}
        /\ result.model_used =
               (IF result.prophet = "produced" THEN "Prophet"
                ELSE IF result.arima = "produced" THEN "ARIMA"
                ELSE "Linear Extrapolation")

C4_Witness ==
    /\ TrendReturned
    /\ result.has_series
    /\ result.prophet = "empty"
    /\ result.arima = "raised"
    /\ result.model_used = "Linear Extrapolation"
    /\ result.end_year > result.last_year

\* C5: no error raised while preparing the series or while training or
\* predicting with Prophet or ARIMA reaches the caller, and for a request
\* with end_year >= start_year the forecast is non-empty except in the
\* zero-steps case (no requested year after the last historical year).
C5_ErrorsSwallowedForecastNonEmpty ==
    TrendCall =>
        /\ ~result.raised
        /\ (result.start_year <= result.end_year
              /\ ~(result.has_series /\ result.end_year <= result.last_year))
              => Len(result.forecast) > 0

C5_Witness ==
    /\ TrendReturned
    /\ result.has_series
    /\ result.prophet = "raised"
    /\ result.arima = "raised"
    /\ result.end_year > result.last_year
    /\ Len(result.forecast) > 0

\* C6: a request whose years are all already observed (start_year <=
\* end_year <= last historical year) returns an empty forecast list.
C6_ObservedYearsGiveNoPoints ==
    (TrendReturned /\ result.has_series
        /\ result.start_year <= result.end_year
        /\ result.end_year <= result.last_year) =>
        result.forecast = <<>>

\* C7: for every non-empty forecast, whichever model produced it, trend is
\* "increasing" if the last value exceeds the first, "decreasing" if it is
\* less, "stable" if they are equal (a single point included).
C7_TrendDirection ==
    (TrendReturned /\ Len(result.forecast) > 0) =>
        result.trend =
            (IF Greater(LastValue, FirstValue) THEN "increasing"
             ELSE IF Greater(FirstValue, LastValue) THEN "decreasing"
             ELSE "stable")

\* C8: when neither Prophet nor ARIMA produces a point, the result is tagged
\* "Linear Extrapolation" with trend "stable" and holds exactly one point
\* for each year start_year..end_year, every point with the same value: the
\* mean production of the rows of the (crop, state) pair (when it has rows).
C8_LinearExtrapolation ==
    (TrendReturned /\ result.prophet # "produced"
        /\ result.arima # "produced") =>
        LET rows == { r \in df : r.Crop = result.crop
                                   /\ r.State = result.state }
            f    == result.forecast
        IN  /\ result.model_used = "Linear Extrapolation"
            /\ result.trend = "stable"
            /\ result.start_year <= result.end_year
                  => Len(f) = result.end_year - result.start_year + 1
            /\ \A i \in 1..Len(f) :
                  /\ f[i].year = result.start_year + i - 1
                  /\ f[i].predicted_production = f[1].predicted_production
                  /\ rows # {} =>
                        /\ f[i].predicted_production.den > 0
                        /\ f[i].predicted_production.num * Cardinality(rows)
                             = f[i].predicted_production.den
                                  * SumProduction(rows)

C8_Witness ==
    /\ TrendReturned
    /\ result.has_series
    /\ result.prophet = "raised"
    /\ result.arima = "raised"
    /\ result.model_used = "Linear Extrapolation"
    /\ Len(result.forecast) = 3
    /\ result.forecast[3].year = result.end_year
    /\ result.forecast[3].predicted_production = [num |-> 500, den |-> 3]

\* C12: in every forecast returned by predict_production_trends the years
\* are strictly increasing and consecutive: none repeated, none skipped.
C12_YearsConsecutive ==
    TrendReturned =>
        \A i \in 1..(Len(result.forecast) - 1) :
            result.forecast[i + 1].year = result.forecast[i].year + 1

C12_Witness ==
    /\ TrendReturned
    /\ result.model_used = "Prophet"
    /\ Len(result.forecast) >= 2
    /\ result.forecast[2].year = result.forecast[1].year + 1

\* C13: when the (crop, state) pair has no historical rows the call does not
\* raise and returns the Linear Extrapolation forecast, every point at the
\* mean production of the whole dataset.
C13_NoHistoryUsesDatasetMean ==
    (TrendCall /\ ~result.has_series) =>
        /\ ~result.raised
        /\ result.model_used = "Linear Extrapolation"
        /\ result.start_year <= result.end_year => Len(result.forecast) > 0
        /\ \A i \in 1..Len(result.forecast) :
              df # {} =>
                 /\ result.forecast[i].predicted_production.den > 0
                 /\ result.forecast[i].predicted_production.num
                        * Cardinality(df)
                      = result.forecast[i].predicted_production.den
                        * SumProduction(df)

C13_Witness ==
    /\ TrendReturned
    /\ ~result.has_series
    /\ result.crop = "Wheat"
    /\ Cardinality(df) = 3
    /\ Len(result.forecast) = 2
    /\ result.forecast[2].predicted_production = [num |-> 700, den |-> 3]
    /\ result.model_used = "Linear Extrapolation"

(***************************************************************************)
(* The engine as the API holds it: one predictor and one dataset, models   *)
(* loaded once, then point estimates and forecasts in any order.  The      *)
(* dataset is kept to at most one row here, the forecast path on larger    *)
(* datasets being SpecTrend's.                                             *)
(***************************************************************************)
SmallDatasets == { d \in Datasets : Cardinality(d) <= 1 }

Init ==
    /\ InitPredictor
    /\ api = NotStarted
    /\ df \in SmallDatasets
    /\ result = NoCall

Next == LoadModels \/ PredictYield \/ PredictProductionTrends \/ Return

Spec == Init /\ [][Next]_vars

\* C15: predict_yield and predict_production_trends have no side effect:
\* a call of either leaves rf_model, xgb_model, encoder, weights, is_loaded
\* and the dataset as they were.
C15_CallsLeaveStateUnchanged ==
    [][(result = NoCall
        /\ result'.op \in {"predict_yield", "predict_production_trends"})
       => UNCHANGED <<rf_model, xgb_model, encoder, weights, is_loaded, df>>
      ]_vars

C15_Witness ==
    /\ result.op = "predict_yield"
    /\ result.model_names = <<"random_forest", "xgboost">>
    /\ is_loaded
    /\ weights = InitialWeights
    /\ df # {}

(***************************************************************************)
(* The profitability calculator.  Yields are in thousandths of a quintal   *)
(* per hectare as above; prices and costs are whole rupees.  The reported  *)
(* figures are rounded to 2 decimals and kept in hundredths.  Arithmetic   *)
(* is exact: the binary floats of the source are taken as the reals they   *)
(* approximate.                                                            *)
(***************************************************************************)

\* round(): the integer nearest to num / den (den > 0), a tie going to the
\* even neighbour.
RoundHalfEven(num, den) ==
    LET q == num \div den
        r == num - q * den
    IN  IF 2 * r > den THEN q + 1
        ELSE IF 2 * r < den THEN q
        ELSE IF q % 2 = 0 THEN q ELSE q + 1

\* The mutant: only a negative cost is refused.
CostInvalidStrict(cost) == cost < 0

\* Line 36: if cost <= 0.
CostInvalid(cost) == cost <= 0

\* Line 39: if predicted_yield < 0.
YieldInvalid(predicted_yield) == predicted_yield < 0

\* Line 43: expected_revenue = predicted_yield * market_price, in thousandths
\* of a rupee.
ExpectedRevenue(predicted_yield, market_price) == predicted_yield * market_price

\* Line 46: profitability_index = expected_revenue / cost if cost > 0 else 0,
\* as the fraction num / den.
ProfitabilityIndex(revenue, cost) ==
    IF cost > 0 THEN [num |-> revenue, den |-> 1000 * cost]
    ELSE [num |-> 0, den |-> 100]

\* The mutant: the cost is charged twice.
ExpectedProfitDoubled(revenue, cost) == revenue - 2 * 1000 * cost

\* Line 49: expected_profit = expected_revenue - cost, in thousandths.
ExpectedProfit(revenue, cost) == revenue - 1000 * cost

\* index > a / b
Exceeds(index, a, b) == b * index.num > a * index.den

\* The mutant: the thresholds are inclusive.
RecommendationInclusive(index) ==
    IF Exceeds(index, 3, 2) \/ 2 * index.num = 3 * index.den
        THEN "Highly Profitable - Strongly Recommended"
    ELSE IF Exceeds(index, 6, 5) \/ 5 * index.num = 6 * index.den
        THEN "Profitable - Recommended"
    ELSE IF Exceeds(index, 1, 1) \/ index.num = index.den
        THEN "Marginally Profitable - Consider"
    ELSE IF Exceeds(index, 4, 5) \/ 5 * index.num = 4 * index.den
        THEN "Low Profitability - Risky"
    ELSE "Loss-Making - Not Recommended"

\* Lines 55-64: the label, by strict comparison of the unrounded index with
\* 1.5, 1.2, 1.0 and 0.8.
Recommendation(index) ==
    IF Exceeds(index, 3, 2) THEN "Highly Profitable - Strongly Recommended"
    ELSE IF Exceeds(index, 6, 5) THEN "Profitable - Recommended"
    ELSE IF Exceeds(index, 1, 1) THEN "Marginally Profitable - Consider"
    ELSE IF Exceeds(index, 4, 5) THEN "Low Profitability - Risky"
    ELSE "Loss-Making - Not Recommended"

\* calculate_profitability_index(predicted_yield, market_price, cost): the
\* ValueError of lines 36-40, or the dictionary of lines 66-75.
calculate_profitability_index(predicted_yield, market_price, cost) ==
    LET raised == CostInvalid(cost) \/ YieldInvalid(predicted_yield)
        expected_revenue == ExpectedRevenue(predicted_yield, market_price)
        profitability_index == ProfitabilityIndex(expected_revenue, cost)
        expected_profit == ExpectedProfit(expected_revenue, cost)
    IN  [raised |-> raised,
         error |-> IF raised THEN "ValueError" ELSE "",
         profitability_index |->
             IF raised THEN 0
             ELSE RoundHalfEven(profitability_index.num,
                                profitability_index.den \div 100),
         predicted_yield |->
             IF raised THEN 0 ELSE RoundHalfEven(predicted_yield, 10),
         expected_revenue |->
             IF raised THEN 0 ELSE RoundHalfEven(expected_revenue, 10),
         cost |-> IF raised THEN 0 ELSE 100 * cost,
         expected_profit |->
             IF raised THEN 0 ELSE RoundHalfEven(expected_profit, 10),
         profit_margin |->
             IF raised \/ cost <= 0 THEN 0
             ELSE RoundHalfEven(10 * expected_profit, cost),
         recommendation |->
             IF raised THEN "" ELSE Recommendation(profitability_index)]

\* The yields, prices and costs of the calls.
ProfitYields == { Milli(-1), Milli(0), Milli(35), Milli(40), Milli(50),
                  Milli(60), 60200 }

MarketPrices == { 1500, 1800, 2000 }

Costs == { -80000, 0, 40000, 80000, 100000, 120000, 150000 }

CalculateProfitability ==
    /\ result = NoCall
    /\ \E predicted_yield \in ProfitYields, market_price \in MarketPrices,
          cost \in Costs :
         result' = [op |-> "calculate_profitability_index",
                    predicted_yield |-> predicted_yield,
                    market_price |-> market_price,
                    cost |-> cost,
                    out |-> calculate_profitability_index(
                                predicted_yield, market_price, cost)]
    /\ UNCHANGED <<predictorVars, df, api>>

InitProfit ==
    /\ InitPredictor
    /\ api = NotStarted
    /\ df = {}
    /\ result = NoCall

NextProfit == CalculateProfitability \/ Return

SpecProfit == InitProfit /\ [][NextProfit]_vars

ProfitCall == result.op = "calculate_profitability_index"

ProfitReturned == ProfitCall /\ ~result.out.raised

\* C16: calculate_profitability_index raises an input-validation error for
\* every cost <= 0, whatever the yield and price, and for every negative
\* predicted yield; no default result is returned in these cases.
C16_InvalidInputRaises ==
    (ProfitCall /\ (result.cost <= 0 \/ result.predicted_yield < 0)) =>
        /\ result.out.raised
        /\ result.out.error = "ValueError"
        /\ result.out.recommendation = ""

C16_Witness ==
    /\ ProfitCall
    /\ result.cost = 0
    /\ result.predicted_yield = Milli(50)
    /\ result.out.raised

\* C17: the label is decided by strict comparisons of the index =
\* yield * price / cost with 1.5, 1.2, 1.0 and 0.8; an index exactly at a
\* threshold takes the lower label, and yield 50, price 2000, cost 80000
\* (index 1.25) is "Profitable - Recommended".
C17_StrictThresholds ==
    ProfitReturned =>
        LET n == result.predicted_yield * result.market_price
            d == 1000 * result.cost
            label == result.out.recommendation
        IN  /\ 2 * n > 3 * d =>
                  label = "Highly Profitable - Strongly Recommended"
            /\ (2 * n <= 3 * d /\ 5 * n > 6 * d) =>
                  label = "Profitable - Recommended"
            /\ (5 * n <= 6 * d /\ n > d) =>
                  label = "Marginally Profitable - Consider"
            /\ (n <= d /\ 5 * n > 4 * d) =>
                  label = "Low Profitability - Risky"
            /\ 5 * n <= 4 * d =>
                  label = "Loss-Making - Not Recommended"
            /\ (result.predicted_yield = Milli(50)
                /\ result.market_price = 2000 /\ result.cost = 80000) =>
                  /\ result.out.profitability_index = 125
                  /\ label = "Profitable - Recommended"

C17_Witness ==
    /\ ProfitReturned
    /\ result.predicted_yield = Milli(60)
    /\ result.market_price = 2000
    /\ result.cost = 80000
    /\ result.out.profitability_index = 150
    /\ result.out.recommendation = "Profitable - Recommended"

\* v is num / den rounded to the nearest integer (den > 0).
IsRounded(v, num, den) ==
    /\ 2 * (v * den - num) <= den
    /\ 2 * (num - v * den) <= den

\* C18: for cost > 0 and yield >= 0 the call reports, each rounded to 2
\* decimals, expected_revenue = yield * price, profitability_index =
\* revenue / cost, expected_profit = revenue - cost and profit_margin =
\* profit / cost * 100; so a reported index above 1 means a profit, and a
\* profit means a reported index of at least 1.
C18_ReportedFigures ==
    (ProfitCall /\ result.cost > 0 /\ result.predicted_yield >= 0) =>
        LET revenue == result.predicted_yield * result.market_price
            profit == revenue - 1000 * result.cost
            out == result.out
        IN  /\ ~out.raised
            /\ IsRounded(out.expected_revenue, revenue, 10)
            /\ IsRounded(out.profitability_index, revenue, 10 * result.cost)
            /\ IsRounded(out.expected_profit, profit, 10)
            /\ IsRounded(out.profit_margin, 10 * profit, result.cost)
            /\ out.profitability_index > 100 => profit > 0
            /\ profit > 0 => out.profitability_index >= 100
            /\ out.expected_profit > 0 => out.profitability_index >= 100

C18_Witness ==
    /\ ProfitReturned
    /\ result.predicted_yield = 60200
    /\ result.market_price = 2000
    /\ result.cost = 100000
    /\ result.out.expected_revenue = 12040000
    /\ result.out.profitability_index = 120
    /\ result.out.expected_profit = 2040000
    /\ result.out.profit_margin = 2040

(***************************************************************************)
(* Ranking: compare_crops_profitability and the /recommendations handler.  *)
(***************************************************************************)

\* The place of x in a list sorted by falling index: behind every entry
\* whose index is not smaller (the sort is stable).
RECURSIVE InsertDescending(_, _)
InsertDescending(sorted, x) ==
    IF sorted = <<>> THEN <<x>>
    ELSE IF Head(sorted).profitability_index < x.profitability_index
    THEN <<x>> \o sorted
    ELSE <<Head(sorted)>> \o InsertDescending(Tail(sorted), x)

RECURSIVE InsertAscending(_, _)
InsertAscending(sorted, x) ==
    IF sorted = <<>> THEN <<x>>
    ELSE IF Head(sorted).profitability_index > x.profitability_index
    THEN <<x>> \o sorted
    ELSE <<Head(sorted)>> \o InsertAscending(Tail(sorted), x)

\* The mutant: list.sort without reverse=True.
RECURSIVE SortAscending(_)
SortAscending(results) ==
    IF results = <<>> THEN <<>>
    ELSE InsertAscending(SortAscending(SubSeq(results, 1, Len(results) - 1)),
                         results[Len(results)])

\* results.sort(key=lambda x: x['profitability_index'], reverse=True)
RECURSIVE SortDescending(_)
SortDescending(results) ==
    IF results = <<>> THEN <<>>
    ELSE InsertDescending(
             SortDescending(SubSeq(results, 1, Len(results) - 1)),
             results[Len(results)])

\* for idx, result in enumerate(results, 1): result['rank'] = idx
AssignRanks(results) ==
    [i \in 1..Len(results) |-> [results[i] EXCEPT !.rank = i]]

\* compare_crops_profitability(crops_data): every crop is scored (an error
\* of calculate_profitability_index leaves the function), then the list is
\* sorted and ranked.
compare_crops_profitability(crops_data) ==
    LET profitability(i) ==
            calculate_profitability_index(crops_data[i].predicted_yield,
                                          crops_data[i].market_price,
                                          crops_data[i].cost)
        raised == \E i \in 1..Len(crops_data) : profitability(i).raised
        results ==
            [i \in 1..Len(crops_data) |->
                [crop |-> crops_data[i].crop,
                 rank |-> 0,
                 profitability_index |-> profitability(i).profitability_index,
                 reason |-> profitability(i).recommendation]]
    IN  [op |-> "compare_crops_profitability",
         raised |-> raised,
         scored |-> IF raised THEN <<>> ELSE results,
         ranked |-> IF raised THEN <<>>
                    ELSE AssignRanks(SortDescending(results)),
         recommendations |-> IF raised THEN <<>>
                             ELSE AssignRanks(SortDescending(results))]

\* The crops_data of the calls: up to MaxCompared crops.
MaxCompared == 3

CompareCandidates ==
    [crop : {"Rice", "Wheat"}, predicted_yield : {Milli(40), Milli(60)},
     market_price : {2000}, cost : {80000}]
        \cup {[crop |-> "Quinoa", predicted_yield |-> Milli(20),
               market_price |-> 2000, cost |-> 0]}

CompareInputs ==
    UNION { [1..n -> CompareCandidates] : n \in 0..MaxCompared }

CompareCrops ==
    /\ result = NoCall
    /\ \E crops_data \in CompareInputs :
         result' = compare_crops_profitability(crops_data)
    /\ UNCHANGED <<predictorVars, df, api>>

(***************************************************************************)
(* The /recommendations handler.  The dataset rows carry the Cost column   *)
(* the handler reads; each pair has at most two rows, whose mean cost is a *)
(* whole number.  One row records a cost of zero.                          *)
(***************************************************************************)
CostRow(crop, cost) ==
    [Crop |-> crop, State |-> "Punjab", Year |-> FirstYear,
     Production |-> 100, Cost |-> cost]

CostRowUniverse ==
    { CostRow("Rice", 40000), CostRow("Rice", 100000),
      CostRow("Quinoa", 0) }

CostDatasets == { d \in SUBSET CostRowUniverse : Cardinality(d) <= MaxRows }

Budgets == { -10000, 0, 50000, 100000 }

TopNs == { -1, 0, 1, 5 }

Min(a, b) == IF a <= b THEN a ELSE b

RECURSIVE SumCost(_)
SumCost(rows) ==
    IF rows = {} THEN 0
    ELSE LET r == CHOOSE x \in rows : TRUE
         IN  r.Cost + SumCost(rows \ {r})

\* Lines 333-344 and 383: the price table, 2000 for a crop it does not list.
MarketPrice(crop) ==
    CASE crop = "Rice" -> 2000
      [] crop = "Wheat" -> 1800
      [] crop = "Cotton" -> 6500
      [] crop = "Soybean" -> 4000
      [] crop = "Sugarcane" -> 3000
      [] crop = "Maize" -> 1500
      [] crop = "Groundnut" -> 5000
      [] crop = "Pulses" -> 6000
      [] crop = "Oilseeds" -> 4500
      [] crop = "Jute" -> 3500
      [] OTHER -> 2000

\* The mutant: the historical mean is not capped at the budget.
EstimatedCostUncapped(data, crop, state, budget) ==
    LET rows == { r \in data : r.Crop = crop /\ r.State = state }
    IN  IF rows # {} THEN SumCost(rows) \div Cardinality(rows)
        ELSE (budget * 8) \div 10

\* Lines 356-370: min(budget, mean Cost of the pair's rows if there are any,
\* else budget * 0.8).
EstimatedCost(data, crop, state, budget) ==
    LET rows == { r \in data : r.Crop = crop /\ r.State = state }
    IN  Min(budget,
            IF rows # {} THEN SumCost(rows) \div Cardinality(rows)
            ELSE (budget * 8) \div 10)

\* df["Crop"].unique().tolist(): the crops in the order of their first rows,
\* which may be any order.
CropOrders(data) ==
    LET crops == { r.Crop : r \in data }
    IN  { q \in [1..Cardinality(crops) -> crops] :
            \A i, j \in 1..Cardinality(crops) : q[i] = q[j] => i = j }

\* crops[:10]
FirstTen(crops) == SubSeq(crops, 1, Min(10, Len(crops)))

\* The mutant: the slice stops one entry early.
SliceExclusive(list, top_n) ==
    IF top_n >= 1 THEN SubSeq(list, 1, Min(top_n - 1, Len(list)))
    ELSE SubSeq(list, 1, Len(list) + Min(top_n, 0))

\* recommendations[: top_n]
Slice(list, top_n) ==
    IF top_n >= 0 THEN SubSeq(list, 1, Min(top_n, Len(list)))
    ELSE SubSeq(list, 1, Len(list) + top_n)

\* The answers the estimators can give: none is asked of a model that is
\* not loaded, not trained or whose input cannot be prepared.
OutcomesFor(model) ==
    IF model = None \/ ~model.is_trained \/ PrepareInputRaises
    THEN {[raises |-> TRUE, value |-> 0]}
    ELSE EstimatorOutcomes

\* The mutant: the profitability is computed on the whole budget, while the
\* estimate is what the entry reports.
ScoreCropOnBudget(data, crop, state, budget, rfOut, xgbOut) ==
    LET estimated_cost == EstimatedCost(data, crop, state, budget)
        prediction == predict_yield(crop, rfOut, xgbOut)
        profitability ==
            calculate_profitability_index(prediction.predicted_yield,
                                          MarketPrice(crop), 2 * budget)
    IN  [crop |-> crop,
         estimated_cost |-> estimated_cost,
         raised |-> prediction.raised \/ profitability.raised,
         entry |-> [crop |-> crop,
                    rank |-> 0,
                    profitability_index |-> profitability.profitability_index,
                    predicted_yield |-> prediction.predicted_yield,
                    estimated_cost |-> estimated_cost,
                    expected_revenue |-> profitability.expected_revenue,
                    expected_profit |-> profitability.expected_profit,
                    reason |-> profitability.recommendation]]

\* Lines 354-405: one pass of the loop body for a crop.  raised tells
\* whether the body ended in "except Exception: continue".
ScoreCrop(data, crop, state, budget, rfOut, xgbOut) ==
    LET estimated_cost == EstimatedCost(data, crop, state, budget)
        prediction == predict_yield(crop, rfOut, xgbOut)
        market_price == MarketPrice(crop)
        profitability ==
            calculate_profitability_index(prediction.predicted_yield,
                                          market_price, estimated_cost)
    IN  [crop |-> crop,
         estimated_cost |-> estimated_cost,
         raised |-> prediction.raised \/ profitability.raised,
         entry |-> [crop |-> crop,
                    rank |-> 0,
                    profitability_index |-> profitability.profitability_index,
                    predicted_yield |-> prediction.predicted_yield,
                    estimated_cost |-> estimated_cost,
                    expected_revenue |-> profitability.expected_revenue,
                    expected_profit |-> profitability.expected_profit,
                    reason |-> profitability.recommendation]]

\* The mutant: the loop ends at the first crop that raises.
KeptUntilRaise(attempts) ==
    LET firstRaise ==
            IF \E i \in 1..Len(attempts) : attempts[i].raised
            THEN CHOOSE i \in 1..Len(attempts) :
                    /\ attempts[i].raised
                    /\ \A j \in 1..(i - 1) : ~attempts[j].raised
            ELSE Len(attempts) + 1
    IN  SubSeq(attempts, 1, firstRaise - 1)

\* Lines 353 and 404-405: "except Exception: continue" leaves out the crop
\* whose pass raised and goes on with the next.
KeptAttempts(attempts) ==
    LET Kept(a) == ~a.raised
    IN  SelectSeq(attempts, Kept)

\* get_recommendations(request), lines 292-419, with the dataset loaded.
\* The zone lookup of lines 305-328 only names the zone and swallows its
\* errors; it is left out.
get_recommendations(data, crops, state, budget, top_n, rfOut, xgbOut) ==
    LET tried == FirstTen(crops)
        attempts == [i \in 1..Len(tried) |->
                        ScoreCrop(data, tried[i], state, budget, rfOut, xgbOut)]
        kept == KeptAttempts(attempts)
        scored == [i \in 1..Len(kept) |-> kept[i].entry]
        ranked == AssignRanks(SortDescending(scored))
    IN  [op |-> "get_recommendations",
         state |-> state,
         budget |-> budget,
         top_n |-> top_n,
         crops |-> crops,
         attempts |-> attempts,
         raised |-> FALSE,
         scored |-> scored,
         ranked |-> ranked,
         recommendations |-> Slice(ranked, top_n)]

\* One request.  The estimators answer every crop of a request alike; the
\* crops still differ in heuristic yield, price and cost.
GetRecommendations ==
    /\ result = NoCall
    /\ \E crops \in CropOrders(df), state \in RequestStates,
          budget \in Budgets, top_n \in TopNs,
          rfOut \in OutcomesFor(rf_model), xgbOut \in OutcomesFor(xgb_model) :
         result' = get_recommendations(df, crops, state, budget, top_n,
                                       rfOut, xgbOut)
    /\ UNCHANGED <<predictorVars, df, api>>

InitRecommend ==
    /\ InitPredictor
    /\ api = NotStarted
    /\ df \in CostDatasets
    /\ result = NoCall

NextRecommend == LoadModels \/ GetRecommendations \/ CompareCrops \/ Return

SpecRecommend == InitRecommend /\ [][NextRecommend]_vars

RankedCall ==
    /\ result.op \in {"get_recommendations", "compare_crops_profitability"}
    /\ ~result.raised

\* C19: after ranking, in get_recommendations and in
\* compare_crops_profitability, the results are a permutation of the scored
\* candidates in order of non-increasing profitability_index, and the i-th
\* result has rank i; what is returned is the head of that list.
C19_RankedByFallingIndex ==
    RankedCall =>
        LET n == Len(result.scored)
        IN  /\ Len(result.ranked) = n
            /\ \E f \in [1..n -> 1..n] :
                  /\ \A i, j \in 1..n : f[i] = f[j] => i = j
                  /\ \A i \in 1..n :
                        result.ranked[i] = [result.scored[f[i]] EXCEPT !.rank = i]
            /\ \A i \in 1..(n - 1) :
                  result.ranked[i].profitability_index
                      >= result.ranked[i + 1].profitability_index
            /\ \A i \in 1..n : result.ranked[i].rank = i
            /\ Len(result.recommendations) <= n
            /\ \A i \in 1..Len(result.recommendations) :
                  result.recommendations[i] = result.ranked[i]

C19_Witness ==
    /\ result.op = "get_recommendations"
    /\ Len(result.scored) = 2
    /\ result.scored[1].profitability_index
           < result.scored[2].profitability_index
    /\ result.ranked[1].crop = result.scored[2].crop
    /\ result.ranked[1].rank = 1
    /\ result.ranked[2].rank = 2

\* The rows of the dataset for the crop of an attempt in the state asked.
PairRows(a) == { r \in df : r.Crop = a.crop /\ r.State = result.state }

\* C20 as stated: the estimated cost is the historical mean cost of the crop
\* in the state when records exist and the mean is <= budget, and 80% of the
\* budget in every other case (here for a positive budget).
C20_MeanOrEightyPercent ==
    (result.op = "get_recommendations" /\ result.budget > 0) =>
        \A i \in 1..Len(result.attempts) :
            LET a == result.attempts[i]
                rows == PairRows(a)
            IN  IF rows # {}
                   /\ SumCost(rows) <= result.budget * Cardinality(rows)
                THEN a.estimated_cost * Cardinality(rows) = SumCost(rows)
                ELSE 10 * a.estimated_cost = 8 * result.budget

\* C20 amended: the estimated cost is min(budget, m), m being the historical
\* mean cost when records exist and 80% of the budget when none do: the
\* mean when it is <= budget, the budget itself when the mean is above it,
\* and with no records 80% of a budget >= 0 (a negative budget itself).
C20_MeanCappedAtBudget ==
    result.op = "get_recommendations" =>
        \A i \in 1..Len(result.attempts) :
            LET a == result.attempts[i]
                rows == PairRows(a)
            IN  /\ (rows # {}
                    /\ SumCost(rows) <= result.budget * Cardinality(rows)) =>
                       a.estimated_cost * Cardinality(rows) = SumCost(rows)
                /\ (rows # {}
                    /\ SumCost(rows) > result.budget * Cardinality(rows)) =>
                       a.estimated_cost = result.budget
                /\ (rows = {} /\ result.budget >= 0) =>
                       10 * a.estimated_cost = 8 * result.budget
                /\ (rows = {} /\ result.budget < 0) =>
                       a.estimated_cost = result.budget

C20_Witness ==
    /\ result.op = "get_recommendations"
    /\ result.state = "Punjab"
    /\ result.budget = 50000
    /\ \E i \in 1..Len(result.attempts) :
          /\ result.attempts[i].crop = "Rice"
          /\ PairRows(result.attempts[i]) # {}
          /\ result.attempts[i].estimated_cost = 50000

RecommendCall == result.op = "get_recommendations"

\* The crops of a list of entries, in order.
CropsOf(entries) == [i \in 1..Len(entries) |-> entries[i].crop]

\* The crops of the attempts whose estimated cost the calculator accepts
\* (the predicted yield is never negative), in order.
RECURSIVE AcceptedCrops(_)
AcceptedCrops(attempts) ==
    IF attempts = <<>> THEN <<>>
    ELSE (IF Head(attempts).estimated_cost > 0
          THEN <<Head(attempts).crop>> ELSE <<>>)
         \o AcceptedCrops(Tail(attempts))

\* C21: a crop whose pass raises is left out while every other crop is still
\* scored and ranked; when every crop raises the response is a normal one
\* with an empty list.
C21_RaisingCropsDropped ==
    RecommendCall =>
        /\ ~result.raised
        /\ Len(result.attempts) = Len(result.crops)
        /\ CropsOf(result.scored) = AcceptedCrops(result.attempts)
        /\ \A i \in 1..Len(result.attempts) :
              (result.attempts[i].estimated_cost > 0) <=>
                  (\E j \in 1..Len(result.ranked) :
                      result.ranked[j].crop = result.attempts[i].crop)
        /\ (\A i \in 1..Len(result.attempts) :
               result.attempts[i].estimated_cost <= 0) =>
                  result.recommendations = <<>>

\* A crop raises (the Quinoa rows record a cost of zero) and the crop after
\* it is scored and returned.
C21_Witness ==
    /\ RecommendCall
    /\ result.crops = <<"Quinoa", "Rice">>
    /\ result.attempts[1].raised
    /\ result.attempts[1].estimated_cost = 0
    /\ ~result.attempts[2].raised
    /\ CropsOf(result.recommendations) = <<"Rice">>
    /\ result.recommendations[1].rank = 1

\* C22: called with budget <= 0, get_recommendations gives the caller an
\* error, not a normal response.
C22_NonPositiveBudgetIsError ==
    (RecommendCall /\ result.budget <= 0) => result.raised

\* C23: for top_n >= 0 the response is the first min(top_n, n) entries of the
\* ranked list of the n scored candidates, with ranks 1..k; all of them when
\* top_n is larger than n.
C23_TopN ==
    (RecommendCall /\ result.top_n >= 0) =>
        LET n == Len(result.scored)
            k == IF result.top_n <= n THEN result.top_n ELSE n
        IN  /\ Len(result.recommendations) = k
            /\ \A i \in 1..k :
                  /\ result.recommendations[i] = result.ranked[i]
                  /\ result.recommendations[i].rank = i
            /\ result.top_n > n => result.recommendations = result.ranked

C23_Witness ==
    /\ RecommendCall
    /\ result.top_n = 1
    /\ Len(result.scored) = 2
    /\ Len(result.recommendations) = 1
    /\ result.recommendations[1].rank = 1
    /\ result.recommendations[1].profitability_index
           > result.ranked[2].profitability_index

\* C30: every returned recommendation has 0 < estimated_cost <= budget, and
\* its profitability figures are those of that estimated cost.
C30_CostWithinBudget ==
    RecommendCall =>
        \A i \in 1..Len(result.recommendations) :
            LET r == result.recommendations[i]
                revenue == r.predicted_yield * MarketPrice(r.crop)
            IN  /\ 0 < r.estimated_cost
                /\ r.estimated_cost <= result.budget
                /\ IsRounded(r.expected_revenue, revenue, 10)
                /\ IsRounded(r.expected_profit,
                             revenue - 1000 * r.estimated_cost, 10)
                /\ IsRounded(r.profitability_index, revenue,
                             10 * r.estimated_cost)

C30_Witness ==
    /\ RecommendCall
    /\ result.budget = 50000
    /\ Len(result.recommendations) = 1
    /\ result.recommendations[1].crop = "Rice"
    /\ result.recommendations[1].estimated_cost = 40000
    /\ result.recommendations[1].predicted_yield = Milli(40)
    /\ result.recommendations[1].profitability_index = 200
    /\ result.recommendations[1].expected_profit = 4000000

(***************************************************************************)
(* EnsembleYieldPredictor._prepare_input: the encoding of the categorical  *)
(* columns.  Here the encoder carries its label_encoders: for each column  *)
(* it was fitted on, the sorted classes_ of that column's LabelEncoder.    *)
(***************************************************************************)
CategoricalCols == {"Crop", "State", "Season", "Variety"}

\* The values a column can take, in sorted order.
Categories(col) ==
    CASE col = "Crop" -> <<"Rice", "Wheat">>
      [] col = "State" -> <<"Kerala", "Punjab">>
      [] col = "Season" -> <<"Kharif", "Rabi">>
      [] col = "Variety" -> <<"Hybrid", "Standard">>

\* LabelEncoder.fit: classes_ is the sorted list of the distinct values seen.
LabelEncoderFit(col, seen) ==
    LET Seen(v) == v \in seen
    IN  SelectSeq(Categories(col), Seen)

ClassLists(col) ==
    { LabelEncoderFit(col, seen) :
        seen \in (SUBSET { Categories(col)[i] :
                             i \in 1..Len(Categories(col)) }) \ {{}} }

\* FeatureEncoder.fit on the object columns the training data has.
FittedEncoders ==
    UNION { { [is_fitted |-> TRUE, label_encoders |-> le] :
                le \in { f \in [cols -> UNION { ClassLists(c) : c \in cols }] :
                            \A c \in cols : f[c] \in ClassLists(c) } } :
            cols \in SUBSET CategoricalCols }

InClasses(classes, v) == \E i \in 1..Len(classes) : classes[i] = v

\* LabelEncoder.transform of one value: its position in classes_, counted
\* from 0; ValueError for a value that is not in classes_.
LabelTransform(classes, v) ==
    IF InClasses(classes, v)
    THEN [raises |-> FALSE,
          code |-> (CHOOSE i \in 1..Len(classes) : classes[i] = v) - 1]
    ELSE [raises |-> TRUE, code |-> 0]

\* hash(str(value)) % 1000: fixed within a process, any of 0..999 from one
\* process to the next.
HashCodes == {0, 999}

\* Lines 190-201 for one column holding the value v.  The membership test
\* of line 192 is made for Crop, State and Season and is True for Variety,
\* whose unseen value raises in transform and is caught at line 197.
EncodeColumn(col, v, hashed) ==
    IF col \in DOMAIN encoder.label_encoders
    THEN LET le == encoder.label_encoders[col]
         IN  IF col = "Variety" \/ InClasses(le, v)
             THEN IF LabelTransform(le, v).raises
                  THEN [raw |-> v, code |-> 0, how |-> "except"]
                  ELSE [raw |-> v, code |-> LabelTransform(le, v).code,
                        how |-> "transform"]
             ELSE [raw |-> v, code |-> 0, how |-> "unseen"]
    ELSE [raw |-> v, code |-> hashed, how |-> "hash"]

\* _prepare_input(crop, state, season, year, cost).  with_variety tells
\* whether the feature names of a loaded rf_model list Variety (the default
\* list of lines 153-154 does); hashed gives hash() % 1000 per column.
prepare_input(crop, state, season, with_variety, hashed) ==
    LET has_variety == IF rf_model = None THEN TRUE ELSE with_variety
        cols == {"Crop", "State", "Season"}
                    \cup (IF has_variety THEN {"Variety"} ELSE {})
        raw == [col \in cols |->
                   CASE col = "Crop" -> crop
                     [] col = "State" -> state
                     [] col = "Season" -> season
                     [] col = "Variety" -> "Standard"]
        encoded == ~PrepareInputRaises /\ encoder # None /\ encoder.is_fitted
    IN  [op |-> "_prepare_input",
         raised |-> PrepareInputRaises,
         encoded |-> encoded,
         values |->
             IF PrepareInputRaises THEN <<>>
             ELSE [col \in cols |->
                      IF encoded
                      THEN EncodeColumn(col, raw[col], hashed[col])
                      ELSE [raw |-> raw[col], code |-> 0, how |-> "raw"]]]

PrepareInput ==
    /\ result = NoCall
    /\ \E crop \in {"Rice", "Wheat"}, state \in {"Kerala", "Punjab"},
          season \in {"Kharif", "Rabi"}, with_variety \in BOOLEAN,
          hashed \in [CategoricalCols -> HashCodes] :
         result' = prepare_input(crop, state, season, with_variety, hashed)
    /\ UNCHANGED <<predictorVars, df, api>>

\* A predictor as load_models leaves it, with any fitted encoder.
InitEncode ==
    /\ rf_model \in {None, LoadedModel("trained"), LoadedModel("untrained")}
    /\ xgb_model = None
    /\ encoder \in {None, [is_fitted |-> FALSE, label_encoders |-> <<>>]}
                       \cup FittedEncoders
    /\ weights = InitialWeights
    /\ is_loaded = TRUE
    /\ df = {}
    /\ result = NoCall
    /\ api = NotStarted

NextEncode == PrepareInput \/ Return

SpecEncode == InitEncode /\ [][NextEncode]_vars

\* C24: with a fitted encoder, a crop, state, season or variety value not
\* seen when the encoder was fitted is mapped to the code 0 and does not
\* raise, and a value seen at fit time is mapped to its fit-time code.
C24_UnseenMapsToZero ==
    (result.op = "_prepare_input" /\ encoder # None /\ encoder.is_fitted
       /\ ~PrepareInputRaises) =>
        /\ ~result.raised
        /\ \A col \in DOMAIN result.values :
              LET v == result.values[col]
                  seen == /\ col \in DOMAIN encoder.label_encoders
                          /\ InClasses(encoder.label_encoders[col], v.raw)
              IN  /\ seen => encoder.label_encoders[col][v.code + 1] = v.raw
                  /\ ~seen => v.code = 0

(***************************************************************************)
(* The API process: the startup event starts load_models_background in a   *)
(* thread; requests are served meanwhile.  Here rf_model, xgb_model,       *)
(* encoder, weights and is_loaded are the fields of the object the global  *)
(* ensemble_predictor names once line 61 has run.  The thread's steps are  *)
(* the statements of load_models_background and of load_models, each of    *)
(* which a request can run between.                                        *)
(***************************************************************************)

\* Lines 53-61: _models_loading = True, then the global is bound to a new,
\* empty predictor.
StartLoading ==
    /\ api.pc = "not_started"
    /\ api' = [ensemble_predictor |-> "object", pc |-> "load_encoder"]
    /\ UNCHANGED <<predictorVars, df, result>>

\* load_models, lines 45-51: the encoder file.  An error in any of the
\* three loads ends load_models in its except clause (lines 70-71).
LoadEncoderFile ==
    /\ api.pc = "load_encoder"
    /\ \E file \in FileStates :
         /\ encoder' = IF file \in {"missing", "corrupt"} THEN None
                       ELSE LoadedEncoder(file)
         /\ api' = [api EXCEPT !.pc = IF file = "corrupt"
                                       THEN "load_models_returned"
                                       ELSE "load_rf"]
    /\ UNCHANGED <<rf_model, xgb_model, weights, is_loaded, df, result>>

\* load_models, lines 53-59: the Random Forest file.
LoadRfFile ==
    /\ api.pc = "load_rf"
    /\ \E file \in FileStates :
         /\ rf_model' = IF file \in {"missing", "corrupt"} THEN None
                        ELSE LoadedModel(file)
         /\ api' = [api EXCEPT !.pc = IF file = "corrupt"
                                       THEN "load_models_returned"
                                       ELSE "load_xgb"]
    /\ UNCHANGED <<xgb_model, encoder, weights, is_loaded, df, result>>

\* load_models, lines 61-67: the XGBoost file.
LoadXgbFile ==
    /\ api.pc = "load_xgb"
    /\ \E file \in FileStates :
         /\ xgb_model' = IF file \in {"missing", "corrupt"} THEN None
                         ELSE LoadedModel(file)
         /\ api' = [api EXCEPT !.pc = IF file = "corrupt"
                                       THEN "load_models_returned"
                                       ELSE "set_is_loaded"]
    /\ UNCHANGED <<rf_model, encoder, weights, is_loaded, df, result>>

\* load_models, line 69: self.is_loaded = True.
SetIsLoaded ==
    /\ api.pc = "set_is_loaded"
    /\ is_loaded' = TRUE
    /\ api' = [api EXCEPT !.pc = "load_models_returned"]
    /\ UNCHANGED <<rf_model, xgb_model, encoder, weights, df, result>>

\* Lines 64-82: the clusterer and the data are loaded and _models_loading is
\* cleared.  The yield handler hands df_data on, predict_yield never reads it.
FinishLoading ==
    /\ api.pc = "load_models_returned"
    /\ api' = [api EXCEPT !.pc = "done"]
    /\ UNCHANGED <<predictorVars, df, result>>

\* One estimator block of predict_yield on a predictor with the models rf
\* and model.
TryEstimatorOf(model, rf, out) ==
    IF model = None \/ ~model.is_trained THEN <<>>
    ELSE IF rf # None /\ rf.feature_names = "None" THEN <<>>
    ELSE IF out.raises THEN <<>>
    ELSE <<out.value>>

\* Lines 182-184: a predictor local to the request, loaded from the files,
\* and its predict_yield.
LocalPredictYield(crop, encFile, rfFile, xgbFile, rfOut, xgbOut) ==
    LET encRaises == encFile = "corrupt"
        rfRaises  == ~encRaises /\ rfFile = "corrupt"
        rf  == IF encRaises \/ rfFile \in {"missing", "corrupt"}
               THEN None ELSE LoadedModel(rfFile)
        xgb == IF encRaises \/ rfRaises \/ xgbFile \in {"missing", "corrupt"}
               THEN None ELSE LoadedModel(xgbFile)
        rfValue  == TryEstimatorOf(rf, rf, rfOut)
        xgbValue == TryEstimatorOf(xgb, rf, xgbOut)
        b == Blend(crop,
                   (IF rfValue # <<>> THEN <<"random_forest">> ELSE <<>>)
                     \o (IF xgbValue # <<>> THEN <<"xgboost">> ELSE <<>>),
                   rfValue \o xgbValue)
    IN  [predicted_yield |-> b.predicted_yield,
         lower |-> b.lower,
         upper |-> b.upper,
         model_names |-> b.model_names]

\* The /predict/yield handler, lines 180-204: the global predictor if the
\* name is bound, a local one otherwise.  load_models_returned records
\* whether load_models had returned on the predictor that answered.
YieldRequest ==
    /\ result = NoCall
    /\ \E crop \in RequestCrops, rfOut \in EstimatorOutcomes,
          xgbOut \in EstimatorOutcomes :
         IF api.ensemble_predictor = "None"
         THEN \E encFile \in FileStates, rfFile \in FileStates,
                 xgbFile \in FileStates :
                result' = [op |-> "yield_request",
                           used_global |-> FALSE,
                           load_models_returned |-> TRUE,
                           answer |-> LocalPredictYield(
                                          crop, encFile, rfFile, xgbFile,
                                          rfOut, xgbOut)]
         ELSE result' = [op |-> "yield_request",
                         used_global |-> TRUE,
                         load_models_returned |->
                             api.pc \in {"load_models_returned", "done"},
                         answer |->
                             LET r == predict_yield(crop, rfOut, xgbOut)
                             IN  [predicted_yield |-> r.predicted_yield,
                                  lower |-> r.lower,
                                  upper |-> r.upper,
                                  model_names |-> r.model_names]]
    /\ UNCHANGED <<predictorVars, df, api>>

InitServe ==
    /\ InitPredictor
    /\ api = NotStarted
    /\ df = {}
    /\ result = NoCall

NextServe ==
    \/ StartLoading \/ LoadEncoderFile \/ LoadRfFile \/ LoadXgbFile
    \/ SetIsLoaded \/ FinishLoading \/ YieldRequest \/ Return

SpecServe == InitServe /\ [][NextServe]_vars

\* C25: no request runs against a global predictor that is published but
\* whose load_models has not completed: a request is answered by a local
\* predictor or by a global one on which load_models has returned.
C25_RequestsSeeCompletedLoad ==
    (result.op = "yield_request" /\ result.used_global) =>
        result.load_models_returned

(***************************************************************************)
(* ARIMAForecaster.find_optimal_order and ARIMAForecaster.train            *)
(***************************************************************************)
\* The defaults of find_optimal_order.
max_p == 3

max_q == 3

\* np.inf, above every AIC of the model.
Infinity == 1000

\* Line 52: d_range.
DRange(is_stationary) == IF is_stationary THEN <<0>> ELSE <<1, 2>>

\* Lines 54-56: the orders in the order the three loops visit them.
Candidates(is_stationary) ==
    LET d_range == DRange(is_stationary)
        nd == Len(d_range)
        nq == max_q + 1
    IN  [i \in 1..((max_p + 1) * nd * nq) |->
            <<(i - 1) \div (nd * nq),
              d_range[(((i - 1) \div nq) % nd) + 1],
              (i - 1) % nq>>]

Raises == [raises |-> TRUE, aic |-> 0]

Fitted(aic) == [raises |-> FALSE, aic |-> aic]

\* What ARIMA(series, order).fit() does for each candidate: every fit
\* raises, every fit gives the same AIC, one fit is the best, or one fit
\* alone succeeds.
FitBehaviours(n) ==
    {[i \in 1..n |-> Raises], [i \in 1..n |-> Fitted(1)]}
        \cup {[i \in 1..n |-> IF i = k THEN Fitted(1) ELSE Fitted(2)] :
                 k \in 1..n}
        \cup {[i \in 1..n |-> IF i = k THEN Fitted(1) ELSE Raises] :
                 k \in 1..n}

\* Lines 54-66 from candidate i on: a fit that raises is skipped, a fit with
\* a smaller AIC becomes the best.
RECURSIVE Search(_, _, _, _, _)
Search(cands, fits, i, best_aic, best_order) ==
    IF i > Len(cands) THEN best_order
    ELSE IF ~fits[i].raises /\ fits[i].aic < best_aic
    THEN Search(cands, fits, i + 1, fits[i].aic, cands[i])
    ELSE Search(cands, fits, i + 1, best_aic, best_order)

\* find_optimal_order: the stationarity test of line 51 stands outside the
\* try of lines 57-65, so its error leaves the function.
find_optimal_order(adf, fits) ==
    IF adf = "raises" THEN [raised |-> TRUE, order |-> <<>>]
    ELSE [raised |-> FALSE,
          order |-> Search(Candidates(adf = "stationary"), fits, 1,
                           Infinity, <<1, 1, 1>>)]

\* train(series) with no explicit order, lines 81-91.
arima_train(adf, fits, fit) ==
    LET search == find_optimal_order(adf, fits)
    IN  [op |-> "arima_train",
         adf |-> adf,
         fitted |-> Cardinality({i \in DOMAIN fits : ~fits[i].raises}),
         search_raised |-> search.raised,
         order |-> search.order,
         fit_attempted |-> ~search.raised,
         raised |-> search.raised \/ fit = "raises",
         is_trained |-> ~search.raised /\ fit = "ok"]

ArimaTrain ==
    /\ result = NoCall
    /\ \E adf \in {"raises", "stationary", "not_stationary"},
          fit \in {"raises", "ok"} :
         \E fits \in (IF adf = "raises" THEN {<<>>}
                      ELSE FitBehaviours(Len(Candidates(adf = "stationary")))) :
            result' = arima_train(adf, fits, fit)
    /\ UNCHANGED <<predictorVars, df, api>>

InitArima ==
    /\ InitPredictor
    /\ api = NotStarted
    /\ df = {}
    /\ result = NoCall

NextArima == ArimaTrain \/ Return

SpecArima == InitArima /\ [][NextArima]_vars

\* C26: when the search over (p, d, q) fails on the series, by every
\* candidate fit failing or by the stationarity test failing, nothing leaves
\* find_optimal_order, the order is the default (1, 1, 1), and train still
\* attempts a fit with it.
C26_SearchFailureGivesDefaultOrder ==
    (result.op = "arima_train" /\ (result.adf = "raises" \/ result.fitted = 0))
        => /\ ~result.search_raised
           /\ result.order = <<1, 1, 1>>
           /\ result.fit_attempted

(***************************************************************************)
(* Further claims about predict_production_trends (checked under SpecTrend)*)
(***************************************************************************)
\* The number of yearly points of the series of the pair asked about.
SeriesLength ==
    Cardinality({ r.Year : r \in Filtered(df, result.crop, result.state) })

\* C27: a series with fewer than 5 yearly points is degenerate:
\* predict_production_trends never returns a Prophet- or ARIMA-tagged
\* forecast for it, it degrades to the fallback.  (Stated for the series of
\* at least 2 points, which Prophet accepts.)
C27_ShortSeriesUsesFallback ==
    (TrendReturned /\ result.has_series
        /\ SeriesLength >= 2 /\ SeriesLength < 5) =>
        result.model_used = "Linear Extrapolation"

ForecastYears == { result.forecast[i].year : i \in 1..Len(result.forecast) }

\* C28: for end_year >= start_year > last historical year the years of the
\* returned forecast are exactly start_year..end_year, whichever link of
\* the chain produced it.
C28_YearsAreTheRequestedRange ==
    (TrendReturned /\ result.has_series
        /\ result.end_year >= result.start_year
        /\ result.start_year > result.last_year) =>
        ForecastYears = result.start_year..result.end_year

\* The label the thresholds give to a reported index (in hundredths).
BracketOfReported(index) ==
    IF index > 150 THEN "Highly Profitable - Strongly Recommended"
    ELSE IF index > 120 THEN "Profitable - Recommended"
    ELSE IF index > 100 THEN "Marginally Profitable - Consider"
    ELSE IF index > 80 THEN "Low Profitability - Risky"
    ELSE "Loss-Making - Not Recommended"

\* C29: in every result of calculate_profitability_index the recommendation
\* is the bracket of the profitability_index reported in the same result
\* (rounded to 2 decimals): a reported 1.5, 1.2, 1.0 or 0.8 has the lower
\* label, a reported index above a threshold the upper one.
C29_LabelMatchesReportedIndex ==
    ProfitReturned =>
        result.out.recommendation
            = BracketOfReported(result.out.profitability_index)

====
